---- MODULE Spec2Model ----
(***************************************************************************)
(* Model of the arXiv daily report: the papers table of database.py and    *)
(* the run of ArxivDailyReport.py (window scan, de-duplicating insertion,  *)
(* batching, bounded-retry summarisation, report composition, pruning).    *)
(*                                                                         *)
(* Text is modelled as sequences: a Python str whose characters matter is  *)
(* a sequence of one-character strings; an ISO-8601 timestamp is a         *)
(* sequence of character codes (SQLite compares TEXT bytewise).            *)
(* Time is counted in ticks; a second has SubSec ticks.                    *)
(***************************************************************************)
EXTENDS Integers, Sequences, FiniteSets, TLC

VARIABLES
    columns,        \* columns of table papers; {} while the table is missing
    papers,         \* rows of table papers
    last_call,      \* the last direct call of the store API and its result
    clock,          \* the wall clock read by the last started run
    runs,           \* number of runs started
    pc,             \* position of main
    now,            \* main: now
    window_start,   \* main: window_start
    cur,            \* main: the feed record r of the last loop iteration
    new_papers,     \* main: new_papers
    scanned_count,  \* main: scanned_count
    in_window_count,\* main: in_window_count
    env,            \* the environment variables read by generate_report_with_chatgpt
    idx,            \* generate_report_with_chatgpt: idx of the chunk being summarised
    attempt,        \* call_chatgpt_with_retry: attempts made for the current chunk
    last_error,     \* call_chatgpt_with_retry: last_error
    outcome,        \* what the external call did on the last attempt
    requests,       \* the requests sent to the external service in this run
    calls,          \* external calls made for the current chunk
    section_texts,  \* generate_report_with_chatgpt: section_texts
    report_text,    \* main: report_text
    written,        \* the report file written by this run
    deleted_count,  \* main: deleted_count
    plan,           \* a scripted external service: its outcome on each call
    feed,           \* what search.results() has still to yield, when it is given
    emitted,        \* the ids appended to new_papers by the runs before this one
    procs,          \* concurrent callers of insert_if_new: position, arguments, result
    lock,           \* the caller holding the write lock of the database file, or 0
    yielded         \* the chunks a direct call of split_chunks has yielded

vars == <<columns, papers, last_call, clock, runs, pc, now, window_start, cur,
          new_papers, scanned_count, in_window_count, env, idx, attempt,
          last_error, outcome, requests, calls, section_texts, report_text,
          written, deleted_count, plan, feed, emitted, procs, lock, yielded>>

extVars == <<feed, emitted, procs, lock, yielded>>

runVars == <<clock, runs, pc, now, window_start, cur, new_papers, scanned_count,
             in_window_count, env, idx, attempt, last_error, outcome,
             requests, calls, section_texts, report_text, written,
             deleted_count, plan, extVars>>

----------------------------------------------------------------------------
(* Bounds of the model *)

\* ticks in one second (the sub-second resolution of the clock)
SubSec == 2
\* ticks in one day
TicksPerDay == 4
\* decimal digits of the seconds field of a timestamp
SecDigits == 2
\* the run starts within ClockSpan ticks after the earliest start
ClockSpan == 1
\* feed records scanned in one run
MaxFeed == 3
\* largest max_attempts given to a scripted external service
MaxAttempts == 3
\* the earliest window_start of the first run, in ticks
EarliestWindow == 18

----------------------------------------------------------------------------
(* Python and SQLite primitives *)

None == "None"

\* timedelta(days=5), ArxivDailyReport.py line 149
LookbackDays == 5
timedelta_days(d) == d * TicksPerDay

utc == <<0>>
naive == <<>>

\* a datetime: wall time t in ticks and tzinfo (naive, or <<utcoffset>>)
datetime(t, tz) == [t |-> t, tzinfo |-> tz]

\* faulty variant: the zone is replaced, not converted
to_utc_replace(dt) == datetime(dt.t, utc)

\* to_utc, lines 12-15
to_utc(dt) ==
    IF dt.tzinfo = naive
    THEN datetime(dt.t, utc)
    ELSE datetime(dt.t - dt.tzinfo[1], utc)

\* comparison of two aware datetimes: by instant
dt_before(a, b) == (a.t - a.tzinfo[1]) < (b.t - b.tzinfo[1])

RECURSIVE Digits(_, _)
Digits(n, w) == IF w = 0 THEN <<>> ELSE Digits(n \div 10, w - 1) \o <<48 + (n % 10)>>

\* datetime.isoformat() of a UTC datetime: the zero-padded date-time field,
\* ".ffffff" only when the sub-second part is not zero, then the "+00:00" tail
isoformat(dt) ==
    Digits(dt.t \div SubSec, SecDigits)
    \o (IF dt.t % SubSec = 0 THEN <<>> ELSE <<46>> \o Digits(dt.t % SubSec, 1))
    \o <<43>>

\* SQLite's "<" on TEXT values under the BINARY collation (memcmp, then length)
RECURSIVE text_less(_, _)
text_less(a, b) ==
    IF b = <<>> THEN FALSE
    ELSE IF a = <<>> THEN TRUE
    ELSE IF Head(a) # Head(b) THEN Head(a) < Head(b)
    ELSE text_less(Tail(a), Tail(b))

\* str.strip(): leading and trailing whitespace removed
RECURSIVE lstrip(_)
lstrip(s) == IF s # <<>> /\ Head(s) = " " THEN lstrip(Tail(s)) ELSE s
RECURSIVE rstrip(_)
rstrip(s) ==
    IF s # <<>> /\ s[Len(s)] = " " THEN rstrip(SubSeq(s, 1, Len(s) - 1)) ELSE s
strip(s) == rstrip(lstrip(s))

\* s.split(sep)[-1]: what follows the last sep
RECURSIVE split_last(_, _)
split_last(s, sep) ==
    IF \E i \in 1..Len(s) : s[i] = sep
    THEN split_last(SubSeq(s, (CHOOSE i \in 1..Len(s) : s[i] = sep) + 1, Len(s)), sep)
    ELSE s

\* faulty variant: the version suffix is kept
split_first_whole(s, sep) == s

\* s.split(sep)[0]: what precedes the first sep
RECURSIVE split_first(_, _)
split_first(s, sep) ==
    IF s = <<>> \/ Head(s) = sep THEN <<>>
    ELSE <<Head(s)>> \o split_first(Tail(s), sep)

----------------------------------------------------------------------------
(* database.py *)

CurrentColumns == {"arxiv_id", "title", "summary", "published_utc", "created_at"}

\* init_db: CREATE TABLE IF NOT EXISTS, then ADD COLUMN summary when missing
init_db_columns(cols) ==
    LET created == IF cols = {} THEN CurrentColumns ELSE cols
    IN  IF "summary" \notin created THEN created \cup {"summary"} ELSE created

\* faulty variant: a table without summary is dropped and created anew
init_db_rows_recreated(cols, rows) ==
    IF cols # {} /\ "summary" \notin cols THEN {} ELSE rows

\* init_db, the rows after the call: ALTER TABLE ... ADD COLUMN gives every
\* stored row a NULL in the new column
init_db_rows(cols, rows) ==
    IF cols # {} /\ "summary" \notin cols
    THEN {[c \in cols \cup {"summary"} |-> IF c = "summary" THEN <<"None">> ELSE row[c]]
             : row \in rows}
    ELSE rows

\* insert_if_new, SELECT arxiv_id FROM papers WHERE arxiv_id = ?
select_exists(rows, arxiv_id) == \E row \in rows : row.arxiv_id = arxiv_id

\* faulty variant: the call returns True also when the id is stored
insert_if_new_result_always(rows, arxiv_id) == TRUE

\* insert_if_new, the return value
insert_if_new_result(rows, arxiv_id) == ~select_exists(rows, arxiv_id)

\* faulty variant: INSERT OR REPLACE, the stored row is overwritten
insert_or_replace_rows(rows, arxiv_id, title, summary, published, created) ==
    {row \in rows : row.arxiv_id # arxiv_id}
    \cup {[arxiv_id |-> arxiv_id, title |-> title, summary |-> summary,
           published_utc |-> published, created_at |-> isoformat(created)]}

\* insert_if_new, the table after the call; created is datetime.now(timezone.utc)
insert_if_new_rows(rows, arxiv_id, title, summary, published, created) ==
    IF select_exists(rows, arxiv_id)
    THEN rows
    ELSE rows \cup {[arxiv_id |-> arxiv_id, title |-> title, summary |-> summary,
                     published_utc |-> published,
                     created_at |-> isoformat(created)]}

\* faulty variant: DELETE FROM papers WHERE published_utc <= ?
prune_deleted_inclusive(rows, cutoff_iso) ==
    {row \in rows : text_less(row.published_utc, cutoff_iso)
                    \/ row.published_utc = cutoff_iso}

\* prune_old_papers, DELETE FROM papers WHERE published_utc < ?
prune_deleted(rows, cutoff_iso) ==
    {row \in rows : text_less(row.published_utc, cutoff_iso)}

\* prune_old_papers, the table after the call
prune_old_papers_rows(rows, cutoff_iso) == rows \ prune_deleted(rows, cutoff_iso)

\* prune_old_papers, the return value cur.rowcount
prune_old_papers_result(rows, cutoff_iso) == Cardinality(prune_deleted(rows, cutoff_iso))

----------------------------------------------------------------------------
(* ArxivDailyReport.py *)

\* Python None where a str is expected
NoneText == <<None>>

\* x or ""
or_empty(x) == IF x = NoneText \/ x = <<>> THEN <<>> ELSE x

\* int(text): an optional sign and decimal digits, ValueError otherwise
DigitChars == <<"0", "1", "2", "3", "4", "5", "6", "7", "8", "9">>
is_digit(c) == \E i \in 1..Len(DigitChars) : DigitChars[i] = c
digit_value(c) == (CHOOSE i \in 1..Len(DigitChars) : DigitChars[i] = c) - 1
RECURSIVE digits_value(_)
digits_value(s) ==
    IF s = <<>> THEN 0
    ELSE digits_value(SubSeq(s, 1, Len(s) - 1)) * 10 + digit_value(s[Len(s)])
int_raises(s) ==
    LET body == IF s # <<>> /\ Head(s) = "-" THEN Tail(s) ELSE s
    IN  body = <<>> \/ \E i \in 1..Len(body) : ~is_digit(body[i])
int(s) == IF Head(s) = "-" THEN 0 - digits_value(Tail(s)) ELSE digits_value(s)

\* os.getenv(name, default) on the value v of the variable (NoneText: not set)
getenv(v, default) == IF v = NoneText THEN default ELSE v

\* range(start, stop, step) for step # 0
RECURSIVE range(_, _, _)
range(start, stop, step) ==
    IF (step > 0 /\ start >= stop) \/ (step < 0 /\ start <= stop) THEN <<>>
    ELSE <<start>> \o range(start + step, stop, step)

\* items[i:j]
slice(items, i, j) ==
    SubSeq(items, i + 1, IF j < Len(items) THEN j ELSE Len(items))

\* split_chunks raises ValueError (range() arg 3 must not be zero)
split_chunks_raises(items, size) == size = 0

\* faulty variant: a final chunk shorter than size is dropped
split_chunks_full_only(items, size) ==
    LET starts == range(0, Len(items) - size + 1, size)
    IN  [k \in 1..Len(starts) |-> slice(items, starts[k], starts[k] + size)]

\* faulty variant: range(0, len(items) + 1, size), a trailing empty chunk
split_chunks_trailing_empty(items, size) ==
    LET starts == range(0, Len(items) + 1, size)
    IN  [k \in 1..Len(starts) |-> slice(items, starts[k], starts[k] + size)]

\* split_chunks, the chunks it yields
split_chunks(items, size) ==
    LET starts == range(0, Len(items), size)
    IN  [k \in 1..Len(starts) |-> slice(items, starts[k], starts[k] + size)]

\* outcome of client.chat.completions.create: an exception, or message.content
Raise(msg) == [raised |-> TRUE, exc |-> msg, content |-> NoneText]
Reply(content) == [raised |-> FALSE, exc |-> "", content |-> content]

\* call_chatgpt_with_retry, "if content:" after a call that did not raise
attempt_returns(o) == ~o.raised /\ o.content # NoneText /\ o.content # <<>>

\* call_chatgpt_with_retry, "return content.strip()"
attempt_value(o) == strip(o.content)

\* faulty variant: the exception text is not kept
attempt_error_generic(o) == "empty response"

\* call_chatgpt_with_retry, last_error after a failed attempt
attempt_error(o) == IF o.raised THEN o.exc ELSE "empty response"

\* call_chatgpt_with_retry, the value returned when the loop ends
failure_text(err) == <<"[Report generation failed after retries: ", err, "]">>

Heading == "# Arxiv Daily Report\n\n"
NoNewReport == <<Heading, "No new papers were found in this run.">>
SkippedReport ==
    <<Heading,
      "Found new papers, but skipped ChatGPT summary because OPENAI_API_KEY is not set.">>

\* generate_report_with_chatgpt, f"## Batch {idx}\n\n{section}"
section_text(i, section) == <<"## Batch ", ToString(i), "\n\n">> \o section

\* "\n\n".join(section_texts)
RECURSIVE join(_)
join(texts) ==
    IF texts = <<>> THEN <<>>
    ELSE IF Len(texts) = 1 THEN texts[1]
    ELSE texts[1] \o <<"\n\n">> \o join(Tail(texts))

\* generate_report_with_chatgpt, the value returned after the loop
report_of(texts) == <<Heading>> \o join(texts)

\* generate_report_with_chatgpt: the settings read from the environment
timeout_text(e) == getenv(e.OPENAI_TIMEOUT_SEC, <<"6", "0">>)
max_attempts_text(e) == getenv(e.OPENAI_MAX_RETRIES, <<"3">>)
chunk_size_text(e) == getenv(e.REPORT_CHUNK_SIZE, <<"1", "0">>)
timeout_sec == int(timeout_text(env))
max_attempts == int(max_attempts_text(env))
chunk_size == int(chunk_size_text(env))
chunks == split_chunks(new_papers, chunk_size)

\* main, report_name: the run time to the second
report_name(dt) == Digits(dt.t \div SubSec, SecDigits)

----------------------------------------------------------------------------
(* The feed, the environment and the external service *)

entry_url(id, version) == <<"x", "v", "/", "a", "/">> \o id \o <<"v", version>>

Catalog ==
    { [entry_id |-> entry_url(<<"1">>, "1"), title |-> "T", summary |-> NoneText],
      [entry_id |-> entry_url(<<"1">>, "2"), title |-> "T'", summary |-> <<" ", "s", " ">>],
      [entry_id |-> entry_url(<<"2">>, "1"), title |-> "U", summary |-> <<"s">>],
      [entry_id |-> entry_url(<<"3">>, "1"), title |-> "V", summary |-> <<>>] }

PubOffsets == {0 - SubSec, 0 - 1, 0, 1}
Zones == {naive, utc, <<SubSec>>}

EarliestNow == EarliestWindow + timedelta_days(LookbackDays)

\* a row left by an earlier run: at the window start of the earliest run, before
\* the window start of a later one
PriorRows ==
    { [arxiv_id |-> <<"2">>, title |-> "U", summary |-> <<"s">>,
       published_utc |-> isoformat(datetime(EarliestWindow, utc)),
       created_at |-> isoformat(datetime(EarliestNow - 1, utc))] }

NoEnv == [OPENAI_API_KEY |-> NoneText, OPENAI_TIMEOUT_SEC |-> NoneText,
          OPENAI_MAX_RETRIES |-> NoneText, REPORT_CHUNK_SIZE |-> NoneText]

\* with a credential: every retry and chunk setting; without one, or with a
\* malformed number, the other settings at their defaults
Envs ==
    [OPENAI_API_KEY : {<<"k">>},
     OPENAI_TIMEOUT_SEC : {NoneText},
     OPENAI_MAX_RETRIES : {NoneText, <<"0">>, <<"1">>},
     REPORT_CHUNK_SIZE : {NoneText, <<"-", "1">>, <<"0">>, <<"1">>, <<"2">>}]
    \cup {[NoEnv EXCEPT !.OPENAI_API_KEY = k] : k \in {NoneText, <<>>}}
    \cup {[NoEnv EXCEPT !.OPENAI_API_KEY = <<"k">>, !.OPENAI_TIMEOUT_SEC = <<"x">>]}

Outcomes ==
    {Raise("timeout"), Raise("error"), Reply(NoneText), Reply(<<>>),
     Reply(<<" ">>), Reply(<<" ", "a", " ">>), Reply(<<"b">>)}

RunOutcomes == {Raise("timeout"), Reply(<<" ">>), Reply(<<" ", "a", " ">>)}

----------------------------------------------------------------------------
(* Idle values *)

NoOutcome == Reply(NoneText)

\* op, arguments and return value of a store call, and what an observer of the
\* table saw: present (the id had a row before the call), differs (that row
\* differs from the arguments), repeat (the call before was insert_if_new of
\* the same id), gone (the published_utc of the rows that disappeared)
NoCall == [op |-> "none", arxiv_id |-> <<>>, present |-> FALSE, differs |-> FALSE,
           repeat |-> FALSE, cutoff |-> datetime(0, utc), gone |-> {},
           ret_bool |-> FALSE, ret_int |-> 0]

\* the processes that may use the database file at the same time
Procs == {1, 2}

\* a caller of insert_if_new: where it is in the function, its arguments, what
\* its SELECT fetched, the row of its open transaction, and how the call ended
NoProc == [pc |-> "idle", arxiv_id |-> <<>>, title |-> "", exists |-> FALSE,
           pending |-> {}, ret |-> "none", new_papers |-> <<>>]

ExtIdle ==
    /\ feed = <<>>
    /\ emitted = {}
    /\ procs = [p \in Procs |-> NoProc]
    /\ lock = 0
    /\ yielded = <<>>

RunIdle ==
    /\ ExtIdle
    /\ clock = 0
    /\ runs = 0
    /\ pc = "idle"
    /\ now = datetime(0, utc)
    /\ window_start = datetime(0, utc)
    /\ cur = <<>>
    /\ new_papers = <<>>
    /\ scanned_count = 0
    /\ in_window_count = 0
    /\ env = NoEnv
    /\ idx = 0
    /\ attempt = 0
    /\ last_error = None
    /\ outcome = NoOutcome
    /\ requests = {}
    /\ calls = 0
    /\ section_texts = <<>>
    /\ report_text = <<>>
    /\ written = <<>>
    /\ deleted_count = 0
    /\ plan = <<>>

----------------------------------------------------------------------------
(* main *)

Init ==
    /\ \/ columns = {} /\ papers = {}
       \/ columns = CurrentColumns /\ papers \in SUBSET PriorRows
    /\ last_call = NoCall
    /\ RunIdle

\* main, lines 147-163
StartRun ==
    /\ pc = "idle"
    /\ \E t \in EarliestNow..(EarliestNow + ClockSpan) :
        /\ clock' = t
        /\ now' = datetime(t, utc)
        /\ window_start' = datetime(t - timedelta_days(LookbackDays), utc)
    /\ columns' = init_db_columns(columns)
    /\ runs' = runs + 1
    /\ new_papers' = <<>>
    /\ scanned_count' = 0
    /\ in_window_count' = 0
    /\ pc' = "scan"
    /\ UNCHANGED <<papers, last_call, cur, env, idx, attempt, last_error, outcome,
                   requests, calls, section_texts, report_text, written, deleted_count, plan, extVars>>

\* faulty variant: "continue" in place of "break", a record before the window
\* is skipped and the scan goes on
ScanRecord_continue(r) ==
    LET published == to_utc(r.published)
        tail == split_last(r.entry_id, "/")
        arxiv_id == split_first(tail, "v")
        summary == strip(or_empty(r.summary))
    IN  /\ cur' = r
        /\ scanned_count' = scanned_count + 1
        /\ pc' = "scan"
        /\ IF dt_before(published, window_start)
           THEN UNCHANGED <<in_window_count, papers, new_papers>>
           ELSE /\ in_window_count' = in_window_count + 1
                /\ papers' = insert_if_new_rows(papers, arxiv_id, r.title, summary,
                                                isoformat(published), now)
                /\ new_papers' =
                       IF insert_if_new_result(papers, arxiv_id)
                       THEN Append(new_papers,
                                   [arxiv_id |-> arxiv_id, title |-> r.title,
                                    published_utc |-> isoformat(published),
                                    url |-> r.entry_id, summary |-> summary])
                       ELSE new_papers

\* main, one iteration of "for r in search.results()", lines 165-185
ScanRecord(r) ==
    LET published == to_utc(r.published)
        tail == split_last(r.entry_id, "/")
        arxiv_id == split_first(tail, "v")
        summary == strip(or_empty(r.summary))
    IN  /\ cur' = r
        /\ scanned_count' = scanned_count + 1
        /\ IF dt_before(published, window_start)
           THEN /\ pc' = "report"
                /\ UNCHANGED <<in_window_count, papers, new_papers>>
           ELSE /\ pc' = "scan"
                /\ in_window_count' = in_window_count + 1
                /\ papers' = insert_if_new_rows(papers, arxiv_id, r.title, summary,
                                                isoformat(published), now)
                /\ new_papers' =
                       IF insert_if_new_result(papers, arxiv_id)
                       THEN Append(new_papers,
                                   [arxiv_id |-> arxiv_id, title |-> r.title,
                                    published_utc |-> isoformat(published),
                                    url |-> r.entry_id, summary |-> summary])
                       ELSE new_papers

ScanStep ==
    /\ pc = "scan"
    /\ scanned_count < MaxFeed
    /\ \E e \in Catalog, d \in PubOffsets, tz \in Zones :
        ScanRecord([entry_id |-> e.entry_id, title |-> e.title, summary |-> e.summary,
                    published |-> datetime(window_start.t + d
                                             + (IF tz = naive THEN 0 ELSE tz[1]), tz)])
    /\ UNCHANGED <<columns, last_call, clock, runs, now, window_start, env, idx, attempt,
                   last_error, outcome, requests, calls, section_texts, report_text, written,
                   deleted_count, plan, extVars>>

\* main, the feed is exhausted: the loop of line 165 ends
FeedEnd ==
    /\ pc = "scan"
    /\ pc' = "report"
    /\ UNCHANGED <<columns, papers, last_call, clock, runs, now, window_start, cur,
                   new_papers, scanned_count, in_window_count, env, idx, attempt,
                   last_error, outcome, requests, calls, section_texts, report_text, written,
                   deleted_count, plan, extVars>>

\* faulty variant: the credential is looked up before the list is tested
report_branch_credential_first(items, e) ==
    IF e.OPENAI_API_KEY = NoneText \/ e.OPENAI_API_KEY = <<>> THEN "skipped"
    ELSE IF items = <<>> THEN "no_new"
    ELSE IF \/ int_raises(timeout_text(e))
            \/ int_raises(max_attempts_text(e))
            \/ int_raises(chunk_size_text(e))
            \/ split_chunks_raises(items, int(chunk_size_text(e)))
    THEN "raise"
    ELSE IF split_chunks(items, int(chunk_size_text(e))) = <<>> THEN "no_chunk"
    ELSE "first_chunk"

\* faulty variant: "if api_key is None", an empty credential counts as set
report_branch_empty_key_set(items, e) ==
    IF items = <<>> THEN "no_new"
    ELSE IF e.OPENAI_API_KEY = NoneText THEN "skipped"
    ELSE IF \/ int_raises(timeout_text(e))
            \/ int_raises(max_attempts_text(e))
            \/ int_raises(chunk_size_text(e))
            \/ split_chunks_raises(items, int(chunk_size_text(e)))
    THEN "raise"
    ELSE IF split_chunks(items, int(chunk_size_text(e))) = <<>> THEN "no_chunk"
    ELSE "first_chunk"

\* generate_report_with_chatgpt, lines 115-132: which way the function goes for
\* the list items under environment e
report_branch(items, e) ==
    IF items = <<>> THEN "no_new"
    ELSE IF e.OPENAI_API_KEY = NoneText \/ e.OPENAI_API_KEY = <<>> THEN "skipped"
    ELSE IF \/ int_raises(timeout_text(e))
            \/ int_raises(max_attempts_text(e))
            \/ int_raises(chunk_size_text(e))
            \/ split_chunks_raises(items, int(chunk_size_text(e)))
    THEN "raise"
    ELSE IF split_chunks(items, int(chunk_size_text(e))) = <<>> THEN "no_chunk"
    ELSE "first_chunk"

\* generate_report_with_chatgpt, lines 114-132, up to the first chunk
GenerateReport ==
    /\ pc = "report"
    /\ cur' = <<>>
    /\ idx' = 1
    /\ attempt' = 0
    /\ last_error' = None
    /\ section_texts' = <<>>
    /\ requests' = {}
    /\ calls' = 0
    /\ \E e \in Envs :
        /\ env' = e
        /\ LET branch == report_branch(new_papers, e)
           IN  /\ report_text' =
                      IF branch = "no_new" THEN NoNewReport
                      ELSE IF branch = "skipped" THEN SkippedReport
                      ELSE IF branch = "no_chunk" THEN report_of(<<>>)
                      ELSE <<>>
               /\ pc' = IF branch = "raise" THEN "crashed"
                        ELSE IF branch = "first_chunk" THEN "summarize"
                        ELSE "write"
    /\ UNCHANGED <<columns, papers, last_call, clock, runs, now, window_start,
                   new_papers, scanned_count, in_window_count, outcome, written,
                   deleted_count, plan, extVars>>

\* generate_report_with_chatgpt, lines 141-143: the section of chunk idx is appended,
\* then the next chunk starts or the report is returned
FinishChunk(section, made) ==
    LET texts == Append(section_texts, section_text(idx, section))
    IN  /\ section_texts' = texts
        /\ IF idx = Len(chunks)
           THEN /\ report_text' = report_of(texts)
                /\ pc' = "write"
                /\ attempt' = made
                /\ calls' = made
                /\ UNCHANGED idx
           ELSE /\ idx' = idx + 1
                /\ attempt' = 0
                /\ calls' = 0
                /\ UNCHANGED <<report_text, pc>>

\* call_chatgpt_with_retry, one iteration of the loop of lines 79-109 with
\* outcome o of the external call, and line 111 after the last iteration
Attempt(o) ==
    /\ pc = "summarize"
    /\ attempt < max_attempts
    /\ outcome' = o
    /\ requests' = requests \cup {[batch |-> idx, papers |-> chunks[idx],
                                    timeout |-> timeout_sec]}
    /\ IF attempt_returns(o)
       THEN /\ FinishChunk(attempt_value(o), attempt + 1)
            /\ last_error' = None
       ELSE IF attempt + 1 = max_attempts
       THEN /\ FinishChunk(failure_text(attempt_error(o)), attempt + 1)
            /\ last_error' = None
       ELSE /\ attempt' = attempt + 1
            /\ calls' = calls + 1
            /\ last_error' = attempt_error(o)
            /\ UNCHANGED <<idx, section_texts, report_text, pc>>
    /\ UNCHANGED <<columns, papers, last_call, clock, runs, now, window_start, cur,
                   new_papers, scanned_count, in_window_count, env, written,
                   deleted_count, plan, extVars>>

\* call_chatgpt_with_retry with max_attempts < 1: the loop body never runs
NoAttempt ==
    /\ pc = "summarize"
    /\ max_attempts < 1
    /\ FinishChunk(failure_text(last_error), 0)
    /\ UNCHANGED <<columns, papers, last_call, clock, runs, now, window_start, cur,
                   new_papers, scanned_count, in_window_count, env, last_error,
                   outcome, requests, calls, written, deleted_count, plan, extVars>>

ServiceCall == \E o \in RunOutcomes : Attempt(o)

\* main, lines 188-190
WriteReport ==
    /\ pc = "write"
    /\ written' = <<report_name(now), report_text>>
    /\ pc' = "prune"
    /\ UNCHANGED <<columns, papers, last_call, clock, runs, now, window_start, cur,
                   new_papers, scanned_count, in_window_count, env, idx, attempt,
                   last_error, outcome, requests, calls, section_texts, report_text,
                   deleted_count, plan, extVars>>

\* faulty variant: the cutoff is computed anew, from the run time
Prune_cutoff_now ==
    /\ pc = "prune"
    /\ deleted_count' = prune_old_papers_result(papers, isoformat(now))
    /\ papers' = prune_old_papers_rows(papers, isoformat(now))
    /\ pc' = "done"
    /\ UNCHANGED <<columns, last_call, clock, runs, now, window_start, cur,
                   new_papers, scanned_count, in_window_count, env, idx, attempt,
                   last_error, outcome, requests, calls, section_texts, report_text,
                   written, plan, extVars>>

\* main, lines 192-204
Prune ==
    /\ pc = "prune"
    /\ deleted_count' = prune_old_papers_result(papers, isoformat(window_start))
    /\ papers' = prune_old_papers_rows(papers, isoformat(window_start))
    /\ pc' = "done"
    /\ UNCHANGED <<columns, last_call, clock, runs, now, window_start, cur,
                   new_papers, scanned_count, in_window_count, env, idx, attempt,
                   last_error, outcome, requests, calls, section_texts, report_text,
                   written, plan, extVars>>

Next ==
    \/ StartRun
    \/ ScanStep
    \/ FeedEnd
    \/ GenerateReport
    \/ ServiceCall
    \/ NoAttempt
    \/ WriteReport
    \/ Prune

Spec == Init /\ [][Next]_vars

----------------------------------------------------------------------------
(* Direct use of the store API: any caller, any arguments, any order *)

ArxivIds == {<<"1">>, <<"2">>, <<"3">>}
Payloads == {[title |-> "T", summary |-> <<>>], [title |-> "T'", summary |-> <<>>],
             [title |-> "T", summary |-> <<"s">>]}
StoreTimes == {EarliestWindow + d : d \in {0 - SubSec, 0 - 1, 0, SubSec}}
CreatedTimes == {EarliestWindow + timedelta_days(LookbackDays)}

StoreInit ==
    /\ columns = init_db_columns({})
    /\ papers = {}
    /\ last_call = NoCall
    /\ RunIdle

CallInsertIfNew ==
    \E arxiv_id \in ArxivIds, p \in Payloads, t \in StoreTimes, c \in CreatedTimes :
        /\ papers' = insert_if_new_rows(papers, arxiv_id, p.title, p.summary,
                                        isoformat(datetime(t, utc)), datetime(c, utc))
        /\ last_call' =
              [NoCall EXCEPT
                 !.op = "insert_if_new",
                 !.arxiv_id = arxiv_id,
                 !.present = arxiv_id \in {row.arxiv_id : row \in papers},
                 !.differs = \E row \in papers :
                                /\ row.arxiv_id = arxiv_id
                                /\ \/ row.title # p.title
                                   \/ row.summary # p.summary
                                   \/ row.published_utc # isoformat(datetime(t, utc)),
                 !.repeat = last_call.op = "insert_if_new"
                            /\ last_call.arxiv_id = arxiv_id,
                 !.ret_bool = insert_if_new_result(papers, arxiv_id)]
        /\ UNCHANGED <<columns, runVars>>

CallPruneOldPapers ==
    \E t \in StoreTimes :
        /\ papers' = prune_old_papers_rows(papers, isoformat(datetime(t, utc)))
        /\ last_call' =
              [NoCall EXCEPT
                 !.op = "prune_old_papers",
                 !.cutoff = datetime(t, utc),
                 !.gone = {row.published_utc : row \in papers \ papers'},
                 !.ret_int = prune_old_papers_result(papers,
                                                     isoformat(datetime(t, utc)))]
        /\ UNCHANGED <<columns, runVars>>

StoreNext == CallInsertIfNew \/ CallPruneOldPapers

StoreSpec == StoreInit /\ [][StoreNext]_vars

----------------------------------------------------------------------------
(* call_chatgpt_with_retry against a scripted external service: the run has *)
(* found one new paper, max_attempts is the length of the script            *)

str(n) == <<DigitChars[n + 1]>>

Scripts == UNION {[1..n -> Outcomes] : n \in 0..MaxAttempts}

ScriptedPaper ==
    [arxiv_id |-> <<"1">>, title |-> "T",
     published_utc |-> isoformat(datetime(EarliestWindow, utc)),
     url |-> entry_url(<<"1">>, "1"), summary |-> <<>>]

SummarizeInit ==
    /\ columns = CurrentColumns
    /\ papers = {[arxiv_id |-> ScriptedPaper.arxiv_id, title |-> ScriptedPaper.title,
                  summary |-> ScriptedPaper.summary,
                  published_utc |-> ScriptedPaper.published_utc,
                  created_at |-> isoformat(datetime(EarliestNow, utc))]}
    /\ last_call = NoCall
    /\ clock = EarliestNow
    /\ runs = 1
    /\ pc = "summarize"
    /\ now = datetime(EarliestNow, utc)
    /\ window_start = datetime(EarliestWindow, utc)
    /\ cur = <<>>
    /\ new_papers = <<ScriptedPaper>>
    /\ scanned_count = 1
    /\ in_window_count = 1
    /\ plan \in Scripts
    /\ env = [NoEnv EXCEPT !.OPENAI_API_KEY = <<"k">>,
                           !.OPENAI_MAX_RETRIES = str(Len(plan))]
    /\ idx = 1
    /\ attempt = 0
    /\ last_error = None
    /\ outcome = NoOutcome
    /\ requests = {}
    /\ calls = 0
    /\ section_texts = <<>>
    /\ report_text = <<>>
    /\ written = <<>>
    /\ deleted_count = 0
    /\ ExtIdle

ScriptedCall ==
    /\ attempt < Len(plan)
    /\ Attempt(plan[attempt + 1])

SummarizeNext == ScriptedCall \/ NoAttempt

SummarizeSpec == SummarizeInit /\ [][SummarizeNext]_vars

----------------------------------------------------------------------------
(* split_chunks called directly, on any list and any positive size *)

\* longest list and largest size given to a direct call of split_chunks
MaxItems == 25
MaxChunk == 12

\* str(n) of a natural number
RECURSIVE decimal(_)
decimal(n) ==
    IF n < 10 THEN <<DigitChars[n + 1]>>
    ELSE decimal(n \div 10) \o <<DigitChars[(n % 10) + 1]>>

\* a list of n new papers, the i-th with arxiv_id str(i)
ChunkPapers(n) ==
    [i \in 1..n |->
        [arxiv_id |-> decimal(i), title |-> "T",
         published_utc |-> isoformat(datetime(EarliestWindow, utc)),
         url |-> entry_url(decimal(i), "1"), summary |-> <<>>]]

ChunkInit ==
    /\ columns = CurrentColumns
    /\ papers = {}
    /\ last_call = NoCall
    /\ RunIdle

\* list(split_chunks(items, size)) with size read as REPORT_CHUNK_SIZE is read
CallSplitChunks ==
    /\ pc = "idle"
    /\ \E n \in 0..MaxItems, s \in 1..MaxChunk :
        /\ new_papers' = ChunkPapers(n)
        /\ env' = [NoEnv EXCEPT !.REPORT_CHUNK_SIZE = decimal(s)]
        /\ yielded' = split_chunks(ChunkPapers(n), int(decimal(s)))
    /\ pc' = "done"
    /\ UNCHANGED <<columns, papers, last_call, clock, runs, now, window_start, cur,
                   scanned_count, in_window_count, idx, attempt, last_error, outcome,
                   requests, calls, section_texts, report_text, written,
                   deleted_count, plan, feed, emitted, procs, lock>>

ChunkNext == CallSplitChunks

ChunkSpec == ChunkInit /\ [][ChunkNext]_vars

----------------------------------------------------------------------------
(* Runs of main one after the other on the same database file, each over a *)
(* feed given in full when the run starts; the publish time of an id is    *)
(* the same in every feed                                                  *)

\* runs of main in a row
MaxRuns == 3
\* records in the feed of one of these runs
MaxFeedLen == 2

\* the feed records of the ids, in any order and any number of times
FixedCatalog ==
    { [entry_id |-> entry_url(<<"1">>, "1"), title |-> "T", summary |-> NoneText,
       published |-> datetime(EarliestWindow + 1, naive)],
      [entry_id |-> entry_url(<<"1">>, "2"), title |-> "T'", summary |-> <<"s">>,
       published |-> datetime(EarliestWindow + 1, naive)],
      [entry_id |-> entry_url(<<"2">>, "1"), title |-> "U", summary |-> <<"s">>,
       published |-> datetime(EarliestWindow, utc)],
      [entry_id |-> entry_url(<<"3">>, "1"), title |-> "V", summary |-> <<>>,
       published |-> datetime(EarliestWindow - 1 + SubSec, <<SubSec>>)] }

Feeds == UNION {[1..n -> FixedCatalog] : n \in 0..MaxFeedLen}

\* no credential; a credential and one attempt per chunk; a malformed timeout
RunsEnvs ==
    { NoEnv,
      [NoEnv EXCEPT !.OPENAI_API_KEY = <<"k">>, !.OPENAI_MAX_RETRIES = <<"1">>],
      [NoEnv EXCEPT !.OPENAI_API_KEY = <<"k">>, !.OPENAI_TIMEOUT_SEC = <<"x">>] }

RunsInit ==
    /\ columns = {}
    /\ papers = {}
    /\ last_call = NoCall
    /\ RunIdle

\* main, lines 147-163, in a new process: after the run before has ended, at a
\* clock that has not gone backwards
BeginRun ==
    /\ pc \in {"idle", "done", "crashed"}
    /\ runs < MaxRuns
    /\ \E t \in (IF runs = 0 THEN EarliestNow..(EarliestNow + ClockSpan)
                 ELSE clock..(clock + ClockSpan)) :
        /\ clock' = t
        /\ now' = datetime(t, utc)
        /\ window_start' = datetime(t - timedelta_days(LookbackDays), utc)
    /\ columns' = init_db_columns(columns)
    /\ runs' = runs + 1
    /\ feed' \in Feeds
    /\ emitted' = emitted \cup {new_papers[i].arxiv_id : i \in 1..Len(new_papers)}
    /\ pc' = "scan"
    /\ cur' = <<>>
    /\ new_papers' = <<>>
    /\ scanned_count' = 0
    /\ in_window_count' = 0
    /\ env' = NoEnv
    /\ idx' = 0
    /\ attempt' = 0
    /\ last_error' = None
    /\ outcome' = NoOutcome
    /\ requests' = {}
    /\ calls' = 0
    /\ section_texts' = <<>>
    /\ report_text' = <<>>
    /\ written' = <<>>
    /\ deleted_count' = 0
    /\ UNCHANGED <<papers, last_call, plan, procs, lock, yielded>>

\* main, one iteration of the loop of lines 165-185 on the next record of the feed
ScanFeed ==
    /\ pc = "scan"
    /\ feed # <<>>
    /\ ScanRecord(Head(feed))
    /\ feed' = Tail(feed)
    /\ UNCHANGED <<columns, last_call, clock, runs, now, window_start, env, idx, attempt,
                   last_error, outcome, requests, calls, section_texts, report_text, written,
                   deleted_count, plan, emitted, procs, lock, yielded>>

\* main, the loop of line 165 ends because the feed has no record left
FeedExhausted == feed = <<>> /\ FeedEnd

RunsGenerateReport == GenerateReport /\ env' \in RunsEnvs

RunsNext ==
    \/ BeginRun
    \/ ScanFeed
    \/ FeedExhausted
    \/ RunsGenerateReport
    \/ ServiceCall
    \/ WriteReport
    \/ Prune

RunsSpec == RunsInit /\ [][RunsNext]_vars

----------------------------------------------------------------------------
(* Two processes calling insert_if_new on the same database file. Each call *)
(* opens its own connection; its SELECT and its INSERT are separate          *)
(* statements, and the INSERT opens a transaction that holds the write lock  *)
(* of the file until conn.commit().                                          *)

\* what the rest of the program does during a call of insert_if_new: nothing
raceRest == <<columns, last_call, clock, runs, pc, now, window_start, cur, new_papers,
              scanned_count, in_window_count, env, idx, attempt, last_error,
              outcome, requests, calls, section_texts, report_text, written,
              deleted_count, plan, feed, emitted, yielded>>

RaceTitles == {"T", "T'"}

\* the row a caller inserts, lines 40-49
race_row(p) ==
    [arxiv_id |-> procs[p].arxiv_id, title |-> procs[p].title, summary |-> <<>>,
     published_utc |-> isoformat(datetime(EarliestWindow, utc)),
     created_at |-> isoformat(datetime(EarliestNow, utc))]

\* faulty variant: arxiv_id is declared TEXT, not TEXT PRIMARY KEY
unique_violation_no_key(rows, arxiv_id) == FALSE

\* init_db, line 12: arxiv_id TEXT PRIMARY KEY, an INSERT of a stored id fails
unique_violation(rows, arxiv_id) == \E row \in rows : row.arxiv_id = arxiv_id

RaceInit ==
    /\ columns = CurrentColumns
    /\ papers = PriorRows
    /\ last_call = NoCall
    /\ RunIdle

\* insert_if_new is entered, lines 29-31
RaceCall(p) ==
    /\ procs[p].pc = "idle"
    /\ \E arxiv_id \in ArxivIds, title \in RaceTitles :
        procs' = [procs EXCEPT ![p] = [@ EXCEPT !.pc = "select",
                                                  !.arxiv_id = arxiv_id,
                                                  !.title = title]]
    /\ UNCHANGED <<papers, lock, raceRest>>

\* lines 33-38: the SELECT reads the committed rows; a stored id returns False
RaceSelect(p) ==
    /\ procs[p].pc = "select"
    /\ LET exists == select_exists(papers, procs[p].arxiv_id)
       IN  procs' = [procs EXCEPT ![p] =
                        IF exists
                        THEN [@ EXCEPT !.pc = "returned", !.exists = TRUE, !.ret = "False"]
                        ELSE [@ EXCEPT !.pc = "insert"]]
    /\ UNCHANGED <<papers, lock, raceRest>>

\* lines 40-49: the INSERT takes the write lock when no other connection holds
\* it, and raises sqlite3.IntegrityError when the id is stored by then
RaceInsert(p) ==
    /\ procs[p].pc = "insert"
    /\ lock = 0
    /\ IF unique_violation(papers, procs[p].arxiv_id)
       THEN /\ procs' = [procs EXCEPT ![p] =
                            [@ EXCEPT !.pc = "raised", !.ret = "IntegrityError"]]
            /\ UNCHANGED lock
       ELSE /\ procs' = [procs EXCEPT ![p] =
                            [@ EXCEPT !.pc = "commit", !.pending = {race_row(p)}]]
            /\ lock' = p
    /\ UNCHANGED <<papers, raceRest>>

\* lines 40-49: the other connection keeps the write lock longer than the
\* connection's timeout, the INSERT raises sqlite3.OperationalError
RaceBusy(p) ==
    /\ procs[p].pc = "insert"
    /\ lock \notin {0, p}
    /\ procs' = [procs EXCEPT ![p] =
                    [@ EXCEPT !.pc = "raised", !.ret = "OperationalError"]]
    /\ UNCHANGED <<papers, lock, raceRest>>

\* lines 51-53, and main lines 176-177: the row is committed, the call returns
\* True and the caller appends the record to its new_papers
RaceCommit(p) ==
    /\ procs[p].pc = "commit"
    /\ papers' = papers \cup procs[p].pending
    /\ lock' = 0
    /\ procs' = [procs EXCEPT ![p] =
                    [@ EXCEPT !.pc = "returned", !.pending = {}, !.ret = "True",
                              !.new_papers = Append(@, procs[p].arxiv_id)]]
    /\ UNCHANGED raceRest

RaceNext ==
    \E p \in Procs :
        \/ RaceCall(p)
        \/ RaceSelect(p)
        \/ RaceInsert(p)
        \/ RaceBusy(p)
        \/ RaceCommit(p)

RaceSpec == RaceInit /\ [][RaceNext]_vars

----------------------------------------------------------------------------
(* init_db called on a database file as any earlier version of the program *)
(* may have left it: missing, with the current table, or with a papers     *)
(* table created without the summary column                                *)

OldColumns == CurrentColumns \ {"summary"}

\* rows of a table with the current columns, and of one without summary
StoredRows(cols) ==
    LET full == {[arxiv_id |-> id, title |-> t, summary |-> <<"s">>,
                  published_utc |-> isoformat(datetime(EarliestWindow, utc)),
                  created_at |-> isoformat(datetime(EarliestNow, utc))]
                    : id \in ArxivIds, t \in {"T", "T'"}}
    IN  {[c \in cols |-> row[c]] : row \in full}

\* tables over these rows: arxiv_id is the primary key
Tables(cols) ==
    {rows \in SUBSET StoredRows(cols) :
        \A a \in rows, b \in rows : a.arxiv_id = b.arxiv_id => a = b}

InitDbInit ==
    /\ \/ columns = {} /\ papers = {}
       \/ columns = CurrentColumns /\ papers \in Tables(CurrentColumns)
       \/ columns = OldColumns /\ papers \in Tables(OldColumns)
    /\ last_call = NoCall
    /\ RunIdle

\* init_db, lines 6-27; repeat: the call before was init_db as well
CallInitDb ==
    /\ columns' = init_db_columns(columns)
    /\ papers' = init_db_rows(columns, papers)
    /\ last_call' = [NoCall EXCEPT !.op = "init_db",
                                   !.repeat = last_call.op = "init_db"]
    /\ UNCHANGED runVars

InitDbNext == CallInitDb

InitDbSpec == InitDbInit /\ [][InitDbNext]_vars

----------------------------------------------------------------------------
(* Vocabulary of the properties *)

\* the instant of a feed timestamp: a naive one is read as UTC
Instant(dt) == IF dt.tzinfo = <<>> THEN dt.t ELSE dt.t - dt.tzinfo[1]

\* the canonical id of a feed record: its entry id without the version suffix
CanonicalId(r) ==
    CHOOSE id \in ArxivIds : \E v \in {"1", "2"} : r.entry_id = entry_url(id, v)

AllTimes == 0..(EarliestNow + ClockSpan + SubSec)

\* the instant a stored published_utc text stands for
PublishedInstant(row) ==
    CHOOSE t \in AllTimes : row.published_utc = isoformat(datetime(t, utc))

\* a text without its surrounding blanks
Trimmed(text) ==
    LET keep == {i \in 1..Len(text) : text[i] # " "}
    IN  IF keep = {} THEN <<>>
        ELSE SubSeq(text, CHOOSE i \in keep : \A j \in keep : i <= j,
                          CHOOSE i \in keep : \A j \in keep : i >= j)

Ceil(n, s) == (n + s - 1) \div s

BatchLabel(i) == <<"## Batch ", ToString(i), "\n\n">>
Placeholder(err) == <<"[Report generation failed after retries: ", err, "]">>
NoNewText ==
    <<"# Arxiv Daily Report\n\n", "No new papers were found in this run.">>
SkippedText ==
    <<"# Arxiv Daily Report\n\n",
      "Found new papers, but skipped ChatGPT summary because OPENAI_API_KEY is not set.">>

\* an attempt that raised or returned no content
NoContent(o) == o.raised \/ o.content = NoneText \/ o.content = <<>>
\* an attempt that returned an empty or whitespace-only content string
Blank(o) ==
    ~o.raised /\ o.content # NoneText /\ \A i \in 1..Len(o.content) : o.content[i] = " "
\* a successful attempt: content that is not empty and not only whitespace
Succeeds(o) == ~o.raised /\ o.content # NoneText /\ ~Blank(o)
ErrorText(o) == IF o.raised THEN o.exc ELSE "empty response"

Configured == env.OPENAI_API_KEY # NoneText /\ env.OPENAI_API_KEY # <<>>
PastReport == pc \in {"summarize", "crashed", "write", "prune", "done"}
Reported == pc \in {"write", "prune", "done"}

----------------------------------------------------------------------------
(* Properties of the scan *)

\* C2: a feed record whose UTC instant is before window_start is neither
\* inserted nor emitted and ends the scan; a record at exactly window_start
\* whose id is not stored is inserted and emitted, and the scan goes on.
C2_WindowBoundary ==
    [][/\ pc # "scan" => scanned_count' = scanned_count
       /\ scanned_count' = scanned_count + 1 =>
            LET r == cur'
                u == Instant(r.published)
                id == CanonicalId(r)
            IN  /\ u < window_start.t =>
                      /\ papers' = papers
                      /\ new_papers' = new_papers
                      /\ pc' = "report"
                /\ (u = window_start.t /\ \A row \in papers : row.arxiv_id # id) =>
                      /\ pc' = "scan"
                      /\ \E row \in papers' :
                            /\ row.arxiv_id = id
                            /\ row.published_utc = isoformat(window_start)
                      /\ new_papers' # <<>>
                      /\ SubSeq(new_papers', 1, Len(new_papers)) = new_papers
                      /\ Len(new_papers') = Len(new_papers) + 1
                      /\ new_papers'[Len(new_papers')].url = r.entry_id
                      /\ new_papers'[Len(new_papers')].arxiv_id = id]_vars

\* the scan emitted a record published at window_start and then stopped at a
\* record published one second before it
C2_Witness ==
    /\ pc = "report"
    /\ cur # <<>>
    /\ Instant(cur.published) = window_start.t - SubSec
    /\ \E i \in 1..Len(new_papers) :
          new_papers[i].published_utc = isoformat(window_start)

----------------------------------------------------------------------------
(* Properties of call_chatgpt_with_retry *)

\* C3: when every attempt raises or returns no content, the external call is
\* made exactly max_attempts >= 1 times, nothing is raised, and the section is
\* the placeholder carrying the error text of the last attempt.
C3_RetryExhaustion ==
    (Len(plan) >= 1 /\ \A i \in 1..Len(plan) : NoContent(plan[i])) =>
        /\ pc \in {"summarize", "write"}
        /\ pc = "summarize" => calls < Len(plan) /\ section_texts = <<>>
        /\ pc = "write" =>
              /\ calls = Len(plan)
              /\ section_texts =
                    << BatchLabel(1) \o Placeholder(ErrorText(plan[Len(plan)])) >>

\* three failed attempts, the first and the last with different error texts
C3_Witness ==
    /\ pc = "write"
    /\ Len(plan) = 3
    /\ \A i \in 1..Len(plan) : NoContent(plan[i])
    /\ ErrorText(plan[1]) # ErrorText(plan[3])
    /\ calls = 3

\* C4: when attempt k is the first successful one, the external call is made
\* exactly k times and the section is the k-th content, trimmed.
C4_FirstSuccessReturned ==
    pc = "write" =>
        \A k \in 1..Len(plan) :
            (Succeeds(plan[k]) /\ \A j \in 1..(k - 1) : ~Succeeds(plan[j])) =>
                /\ calls = k
                /\ section_texts = << BatchLabel(1) \o Trimmed(plan[k].content) >>

\* C4 for the scripts in which no attempt before the first successful one
\* returns whitespace-only content
C4_FirstSuccessAfterNoContent ==
    pc = "write" =>
        \A k \in 1..Len(plan) :
            (Succeeds(plan[k]) /\ \A j \in 1..(k - 1) : NoContent(plan[j])) =>
                /\ calls = k
                /\ section_texts = << BatchLabel(1) \o Trimmed(plan[k].content) >>

\* C5: an attempt that returns empty or whitespace-only content is a failed
\* attempt: the call does not return on it while attempts remain, and the
\* section is never the empty string.
C5_BlankContentIsFailure ==
    pc = "write" =>
        /\ section_texts # << BatchLabel(1) >>
        /\ \A i \in 1..(Len(plan) - 1) : (i <= calls /\ Blank(plan[i])) => calls > i

----------------------------------------------------------------------------
(* Properties of generate_report_with_chatgpt and of the run *)

\* the report of a configured run with a positive chunk size over n >= 1 new
\* papers: ceil(n / s) sections, labelled with their batch index, one heading
SectionsComplete ==
    (Reported /\ new_papers # <<>> /\ Configured /\ chunk_size > 0) =>
        /\ Len(section_texts) = Ceil(Len(new_papers), chunk_size)
        /\ \A i \in 1..Len(section_texts) :
              SubSeq(section_texts[i], 1, 3) = BatchLabel(i)
        /\ report_text = <<"# Arxiv Daily Report\n\n">> \o join(section_texts)

\* the section a finished batch contributes: the placeholder when its attempts
\* are exhausted, the trimmed content otherwise; earlier sections stay, and
\* the next batch starts whatever this one contributed
SectionAdded ==
    (pc = "summarize" /\ Len(section_texts') = Len(section_texts) + 1) =>
        /\ SubSeq(section_texts', 1, Len(section_texts)) = section_texts
        /\ section_texts'[idx] =
              BatchLabel(idx) \o
                (IF max_attempts < 1 THEN Placeholder("None")
                 ELSE IF NoContent(outcome') THEN Placeholder(ErrorText(outcome'))
                 ELSE Trimmed(outcome'.content))
        /\ idx < Ceil(Len(new_papers), chunk_size) =>
              pc' = "summarize" /\ idx' = idx + 1 /\ calls' = 0

\* C6: with a credential and a positive batch size, n >= 1 new records give
\* exactly ceil(n / s) sections 'Batch 1' .. in batch order under one heading;
\* an exhausted batch contributes its placeholder as its own section and every
\* other batch is summarised and keeps its result.
C6_OneSectionPerBatch ==
    [][SectionsComplete' /\ SectionAdded
       /\ (pc = "summarize" => Len(section_texts') >= Len(section_texts))]_vars

\* three new papers in chunks of two: the first batch exhausted, the second
\* summarised
C6_Witness ==
    /\ pc = "done"
    /\ Len(new_papers) = 3
    /\ chunk_size = 2
    /\ section_texts = << BatchLabel(1) \o Placeholder("timeout"),
                          BatchLabel(2) \o <<"a">> >>

\* C7: with no new records the report is the fixed 'no new papers' text and no
\* external call is made, whatever the credential and the settings are.
C7_EmptyInputReport ==
    (PastReport /\ new_papers = <<>>) =>
        /\ Reported
        /\ report_text = NoNewText
        /\ requests = {}
        /\ calls = 0
        /\ pc \in {"prune", "done"} => written[2] = NoNewText

\* a run without new papers ended, with a credential and a chunk size of zero
C7_Witness ==
    /\ pc = "done"
    /\ new_papers = <<>>
    /\ env.OPENAI_API_KEY = <<"k">>
    /\ env.REPORT_CHUNK_SIZE = <<"0">>
    /\ written[2] = NoNewText

\* C8: with new records and no credential no external call is made, the
\* report is the fixed 'summary skipped' text, and the run goes on: the report
\* is written and the table is pruned with the window_start of the run.
C8_MissingCredential ==
    [][(PastReport' /\ new_papers' # <<>> /\ ~Configured') =>
          /\ Reported'
          /\ report_text' = SkippedText
          /\ requests' = {}
          /\ calls' = 0
          /\ pc' \in {"prune", "done"} => written' = <<report_name(now), SkippedText>>
          /\ pc' = "done" =>
                /\ pc = "prune"
                /\ papers' = {row \in papers : PublishedInstant(row) >= window_start.t}
                /\ deleted_count' = Cardinality(papers \ papers')]_vars

\* a run with a new paper and an empty credential ended; its prune deleted a row
C8_Witness ==
    /\ pc = "done"
    /\ new_papers # <<>>
    /\ env.OPENAI_API_KEY = <<>>
    /\ written[2] = SkippedText
    /\ deleted_count = 1

\* C10: a batch size of zero or less is rejected before any batch is produced:
\* with new records and a credential, the report is never made of zero batches.
C10_NonPositiveChunkRejected ==
    (PastReport /\ new_papers # <<>> /\ Configured
     /\ env.OPENAI_TIMEOUT_SEC = NoneText /\ chunk_size <= 0) =>
        pc = "crashed"

----------------------------------------------------------------------------
(* Properties of the papers table *)

\* C1: two insert_if_new calls in a row with the same id return true then
\* false when the id was absent (false, false when present), and the second
\* call leaves the table as the first left it, whatever title, summary and
\* published value it carries.
C1_ReinsertionIsNoOp ==
    [][(/\ last_call.op = "insert_if_new"
        /\ last_call'.op = "insert_if_new"
        /\ last_call'.arxiv_id = last_call.arxiv_id)
       => (/\ last_call.ret_bool = ~last_call.present
           /\ last_call'.ret_bool = FALSE
           /\ papers' = papers)]_vars

\* a second insert_if_new of a stored id with other field values has returned
C1_Witness ==
    /\ last_call.op = "insert_if_new"
    /\ last_call.repeat
    /\ last_call.differs
    /\ ~last_call.ret_bool

\* C9: prune_old_papers(cutoff) deletes exactly the rows published strictly
\* before cutoff, keeps the rows published at or after it, and returns the
\* number of rows it deleted.
C9_PruneDeletesExactlyOlder ==
    [][last_call'.op = "prune_old_papers"
       => (/\ papers' = {row \in papers :
                            \A t \in StoreTimes :
                                row.published_utc = isoformat(datetime(t, utc))
                                => t >= last_call'.cutoff.t}
           /\ last_call'.ret_int = Cardinality(papers \ papers'))]_vars

\* a table holding cutoff - 1 s, cutoff and cutoff + 1 s was pruned: 1 row deleted
C9_Witness ==
    /\ last_call.op = "prune_old_papers"
    /\ last_call.ret_int = 1
    /\ last_call.gone = {isoformat(datetime(last_call.cutoff.t - SubSec, utc))}
    /\ {isoformat(last_call.cutoff),
        isoformat(datetime(last_call.cutoff.t + SubSec, utc))}
           \subseteq {row.published_utc : row \in papers}

----------------------------------------------------------------------------
(* Properties of split_chunks *)

\* the groups of a list of groups, joined in order
RECURSIVE Flatten(_)
Flatten(groups) ==
    IF groups = <<>> THEN <<>> ELSE Head(groups) \o Flatten(Tail(groups))

\* C11: for n items and a size s >= 1 split_chunks yields ceil(n / s) groups
\* whose concatenation in order is the input; every group but the last has s
\* items, the last has 1..s items, no group is empty, and an empty input
\* yields zero groups.
C11_ChunksPartitionInput ==
    pc = "done" =>
        LET n == Len(new_papers)
            s == chunk_size
            k == Len(yielded)
        IN  /\ s >= 1
            /\ k = Ceil(n, s)
            /\ Flatten(yielded) = new_papers
            /\ \A i \in 1..(k - 1) : Len(yielded[i]) = s
            /\ k > 0 => Len(yielded[k]) >= 1 /\ Len(yielded[k]) <= s
            /\ \A i \in 1..k : yielded[i] # <<>>
            /\ n = 0 => yielded = <<>>

\* 25 items in chunks of 10: groups of 10, 10 and 5 items
C11_Witness ==
    /\ pc = "done"
    /\ Len(new_papers) = 25
    /\ chunk_size = 10
    /\ [i \in 1..Len(yielded) |-> Len(yielded[i])] = <<10, 10, 5>>

----------------------------------------------------------------------------
(* Properties of a scan over a feed given in full *)

\* the ids of the rows of the table, and of the entries of a list of new papers
StoredIds == {row.arxiv_id : row \in papers}
IdsOf(items) == {items[i].arxiv_id : i \in 1..Len(items)}

\* the record at the head of the feed is published before window_start
HeadBeforeWindow == feed # <<>> /\ Instant(Head(feed).published) < window_start.t

\* C12: the scan ends at the first feed record published before window_start,
\* and otherwise only when the feed is exhausted; once it has ended, no later
\* record of the feed is scanned, inserted or emitted for the rest of the run,
\* even one that lies inside the window.
C12_ScanStopsForGood ==
    [][/\ pc = "scan" => (pc' # "scan" <=> (feed = <<>> \/ HeadBeforeWindow))
       /\ (pc = "scan" /\ HeadBeforeWindow) =>
              /\ feed' = Tail(feed)
              /\ papers' = papers
              /\ new_papers' = new_papers
       /\ (pc # "scan" /\ pc' # "scan") =>
              /\ feed' = feed
              /\ scanned_count' = scanned_count
              /\ in_window_count' = in_window_count
              /\ new_papers' = new_papers
              /\ papers' \subseteq papers]_vars

\* a run ended whose scan stopped at a record before the window, with a record
\* inside the window and not stored left in the feed
C12_Witness ==
    /\ pc = "done"
    /\ scanned_count = in_window_count + 1
    /\ \E i \in 1..Len(feed) :
          /\ Instant(feed[i].published) >= window_start.t
          /\ CanonicalId(feed[i]) \notin StoredIds
          /\ CanonicalId(feed[i]) \notin IdsOf(new_papers)

----------------------------------------------------------------------------
(* Properties of the run as a whole *)

\* C13: a run whose feed and store do not fault runs to completion whatever
\* the attempts' outcomes and the configuration values are: it always has a
\* next step until it has written its report and then pruned the table (its
\* loops are bounded, so it gets there). A run stopped for a batch size of
\* zero or less is left aside here: it is the subject of C10.
C13_RunCompletes ==
    /\ \/ pc = "done"
       \/ pc = "crashed" /\ chunk_size <= 0
       \/ ENABLED Next
    /\ pc = "done" => written = <<report_name(now), report_text>>

----------------------------------------------------------------------------
(* Properties of concurrent calls of insert_if_new *)

\* the call of process p has ended, by a return or by an exception
Finished(p) == procs[p].pc \in {"returned", "raised"}

\* the SELECT of process p has fetched no row
PassedCheck(p) ==
    procs[p].pc \in {"insert", "commit", "raised"} \/ procs[p].ret = "True"

\* both processes have called insert_if_new with the same id
SameId == procs[1].pc # "idle" /\ procs[2].pc # "idle"
          /\ procs[1].arxiv_id = procs[2].arxiv_id

\* the rows stored under the id of process p
RowsOf(p) == {row \in papers : row.arxiv_id = procs[p].arxiv_id}

\* C14: two calls of insert_if_new for the same id, absent before both, end as
\* some serial order of the two ends, however their SELECT and INSERT steps
\* interleave: one call returns true, the other returns false, and the table
\* holds one row for the id, that of the call which returned true.
C14_InsertIfNewAtomic ==
    (SameId /\ Finished(1) /\ Finished(2)
     /\ procs[1].arxiv_id \notin {row.arxiv_id : row \in PriorRows}) =>
        \E p \in Procs, q \in Procs :
            /\ p # q
            /\ procs[p].ret = "True"
            /\ procs[q].ret = "False"
            /\ papers = PriorRows \cup {race_row(p)}

\* C18: in the interleaving where the calls of two concurrent runs both find
\* the same id not stored, both calls return true and both runs hold the
\* record as new.
C18_RacingCallsBothTrue ==
    (SameId /\ PassedCheck(1) /\ PassedCheck(2) /\ Finished(1) /\ Finished(2)) =>
        \A p \in Procs :
            /\ procs[p].ret = "True"
            /\ procs[p].new_papers = <<procs[p].arxiv_id>>

\* C18 as amended: both calls can find the id not stored, and then exactly one
\* returns true and the other raises a database error, one row is stored and
\* one run holds the record as new; in no interleaving do both return true.
C18_RacingCallsOneTrueOneRaises ==
    /\ SameId => ~(procs[1].ret = "True" /\ procs[2].ret = "True")
    /\ (SameId /\ PassedCheck(1) /\ PassedCheck(2) /\ Finished(1) /\ Finished(2)) =>
          \E p \in Procs, q \in Procs :
              /\ p # q
              /\ procs[p].ret = "True"
              /\ procs[p].new_papers = <<procs[p].arxiv_id>>
              /\ procs[q].ret \in {"IntegrityError", "OperationalError"}
              /\ procs[q].new_papers = <<>>
              /\ RowsOf(p) = {race_row(p)}

\* both calls found the id not stored; one returned true, the INSERT of the
\* other was rejected by the primary key
C18_Witness ==
    /\ SameId
    /\ PassedCheck(1) /\ PassedCheck(2)
    /\ \E p \in Procs, q \in Procs :
          /\ procs[p].ret = "True"
          /\ procs[q].ret = "IntegrityError"
          /\ Cardinality(RowsOf(p)) = 1

----------------------------------------------------------------------------
(* Properties of init_db *)

\* a row as seen through the columns cols
Restrict(row, cols) == [c \in cols |-> row[c]]

\* C15: init_db on a missing store, on a current one, or on an older one whose
\* papers table lacks summary keeps every row with the values of the fields it
\* had, ends with a table that has the summary column, and changes nothing
\* when it is called a second time.
C15_InitDbIdempotentNonDestructive ==
    [][last_call'.op = "init_db" =>
          /\ "summary" \in columns'
          /\ columns \subseteq columns'
          /\ columns' = CurrentColumns
          /\ \A row \in papers' : DOMAIN row = columns'
          /\ Cardinality(papers') = Cardinality(papers)
          /\ {Restrict(row, columns) : row \in papers'} = papers
          /\ last_call.op = "init_db" => columns' = columns /\ papers' = papers]_vars

\* init_db was called twice on an older store holding two rows: both rows are
\* there, with no value in summary
C15_Witness ==
    /\ last_call.op = "init_db"
    /\ last_call.repeat
    /\ Cardinality(papers) = 2
    /\ \A row \in papers : row.summary = <<"None">> /\ row.title \in {"T", "T'"}

----------------------------------------------------------------------------
(* Properties of what is handed to the summarizer *)

\* the batches are being, or have been, handed to call_chatgpt_with_retry
Batching ==
    /\ pc \in {"summarize", "write", "prune", "done"}
    /\ new_papers # <<>>
    /\ Configured
    /\ chunk_size > 0

\* one iteration of the scan emits its record exactly when the record is in the
\* window and its id was not stored, and then also inserts it
EmitsExactlyInserted ==
    scanned_count' = scanned_count + 1 =>
        LET r == cur'
            id == CanonicalId(r)
        IN  IF Instant(r.published) >= window_start.t /\ id \notin StoredIds
            THEN /\ Len(new_papers') = Len(new_papers) + 1
                 /\ SubSeq(new_papers', 1, Len(new_papers)) = new_papers
                 /\ new_papers'[Len(new_papers')].arxiv_id = id
                 /\ new_papers'[Len(new_papers')].url = r.entry_id
                 /\ \E row \in papers' : row.arxiv_id = id /\ papers' = papers \cup {row}
            ELSE new_papers' = new_papers /\ papers' = papers

\* the batches, joined in batch order, are the new records in scan order; each
\* request carries the batch of its index, and once the report is made each
\* batch has been handed over once
BatchesAreNewRecords ==
    Batching =>
        LET batches == chunks
            count == Len(batches)
        IN  /\ Flatten(batches) = new_papers
            /\ \A req \in requests :
                  req.batch \in 1..count /\ req.papers = batches[req.batch]
            /\ Reported =>
                  /\ Len(section_texts) = count
                  /\ idx = count
                  /\ max_attempts >= 1 => {req.batch : req \in requests} = 1..count

\* the batches are taken one after the other, and a request is for the batch
\* being summarised
BatchesInOrder ==
    pc = "summarize" =>
        /\ idx' \in {idx, idx + 1}
        /\ \A req \in requests' \ requests : req.batch = idx

\* C16: with a credential and a positive batch size the records handed to the
\* summarizer, joined over the batches in batch order, are exactly the records
\* this run's scan newly inserted, in scan order: each of them is in one batch,
\* and no skipped or out-of-window record is in any batch. (The prune, the last
\* step of the run, leaves the batches and the requests as they are.)
C16_BatchesAreTheNewRecords ==
    [][/\ EmitsExactlyInserted
       /\ pc # "scan" => new_papers' = new_papers
       /\ BatchesAreNewRecords
       /\ BatchesInOrder
       /\ pc = "prune" => UNCHANGED <<env, idx, requests, section_texts>>]_vars

\* a run scanned three records in the window, one of them stored before, and
\* summarised the two new ones in two batches of one
C16_Witness ==
    /\ pc = "done"
    /\ in_window_count = 3
    /\ Len(new_papers) = 2
    /\ Configured
    /\ chunk_size = 1
    /\ {<<req.batch, req.papers>> : req \in requests}
          = {<<1, <<new_papers[1]>> >>, <<2, <<new_papers[2]>> >>}

----------------------------------------------------------------------------
(* Properties of the prune at the end of a run *)

\* C17: a run prunes with the window_start it scanned with and only after its
\* report is composed and written; its prune deletes no record the run
\* inserted, and right after it every stored record is published at or after
\* that window_start.
C17_PruneAfterReportSameWindow ==
    [][/\ pc \in {"scan", "report", "summarize", "write", "prune"} =>
              window_start' = window_start
       /\ papers \ papers' # {} =>
              /\ pc = "prune"
              /\ written = <<report_name(now), report_text>>
       /\ pc = "prune" =>
              /\ IdsOf(new_papers) \subseteq StoredIds
              /\ papers' = {row \in papers : PublishedInstant(row) >= window_start.t}
              /\ IdsOf(new_papers) \subseteq {row.arxiv_id : row \in papers'}
              /\ \A row \in papers' : PublishedInstant(row) >= window_start.t]_vars

\* a run ended that inserted a record published at its window_start and whose
\* prune deleted a row of an earlier run: the new record is stored
C17_Witness ==
    /\ pc = "done"
    /\ deleted_count = 1
    /\ \E i \in 1..Len(new_papers) :
          /\ new_papers[i].published_utc = isoformat(window_start)
          /\ new_papers[i].arxiv_id \in StoredIds

----------------------------------------------------------------------------
(* Properties of runs one after the other *)

\* C19: over runs that do not overlap, with clocks that do not go backwards
\* and a fixed publish time for each id, an id is emitted as new in at most
\* one run: no id emitted by an earlier run is in new_papers, whether that
\* run summarised it, ended in the placeholder, skipped the summary or stopped,
\* and also when the id's row has been pruned since.
C19_EmittedAtMostOnce == IdsOf(new_papers) \cap emitted = {}

\* the third run met, in its feed, an id that an earlier run emitted and whose
\* row has been pruned since: it is not emitted again
C19_Witness ==
    /\ runs = 3
    /\ pc = "report"
    /\ cur # <<>>
    /\ CanonicalId(cur) \in emitted
    /\ CanonicalId(cur) \notin StoredIds
    /\ CanonicalId(cur) \notin IdsOf(new_papers)

----------------------------------------------------------------------------
(* Properties of new_papers within a run *)

\* the canonical ids of the feed records behind the entries of a list
CanonicalIdsOf(items) == {CanonicalId([entry_id |-> items[i].url]) : i \in 1..Len(items)}

\* C20: within a run new_papers never holds two entries with the same
\* canonical id, also when the feed delivers the id again (under another
\* version suffix, say): the later occurrence changes neither new_papers nor
\* the table, and the table holds one row for the id.
C20_NoDuplicateNewRecords ==
    [][/\ (scanned_count' = scanned_count + 1
           /\ CanonicalId(cur') \in CanonicalIdsOf(new_papers)) =>
              /\ new_papers' = new_papers
              /\ papers' = papers
       /\ Cardinality(CanonicalIdsOf(new_papers')) = Len(new_papers')
       /\ \A id \in CanonicalIdsOf(new_papers') :
              Cardinality({row \in papers' : row.arxiv_id = id}) = 1]_vars

\* the feed delivered id 1 as version 1 and then, in the window, as version 2:
\* only the first is in new_papers and in the table
C20_Witness ==
    /\ pc = "scan"
    /\ in_window_count = 2
    /\ cur.entry_id = entry_url(<<"1">>, "2")
    /\ Len(new_papers) = 1
    /\ new_papers[1].url = entry_url(<<"1">>, "1")
    /\ {row.title : row \in {row \in papers : row.arxiv_id = <<"1">>}} = {"T"}

====
